---- MODULE Spec2Model ----
(***************************************************************************)
(* State-machine model of train() in train.py: start-up (method lookup,   *)
(* model construction, set-up), the epoch loop with its TRAIN pass, EVAL   *)
(* pass, checkpoint handling, history and plot, and the final report.      *)
(***************************************************************************)
EXTENDS Integers, Sequences, FiniteSets, TLC

(* ----------------------------- bounds ---------------------------------- *)
MaxEpoch == 3          \* num_epoch ranges over 0..MaxEpoch
MaxSaveEpoch == 2      \* save_epoch ranges over 0..MaxSaveEpoch
MaxF1 == 1             \* dev F1 values are drawn from 0..MaxF1
TrainExamples == 70    \* size of the non-empty training set
DevExamples == 40      \* size of the larger dev set

(* ------------------------- program constants --------------------------- *)
TargetBatch == 64      \* train.py:81   grad_acc_steps = 64 // batch_size
BatchLen == 5          \* train.py:155  a batch is a list of five fields
DefaultMethod == 3     \* train.py:30   default of --input_method, --output_method

input_method_name == <<"", "standard", "positional_embedding", "entity_markers">>
output_method_name == <<"", "cls_token", "mention_pooling", "entity_start">>

LabelNames == <<"no_relation", "per:title", "org:founded_by">>
NumLabels == Len(LabelNames)

BatchSizes == {12, 32, 64, 65}
MethodValues == {-5, -1, 0, 2, 3, 4}
\* command lines that override at most one of the two method selectors
MethodPairs == {<<a, DefaultMethod>> : a \in MethodValues}
                 \cup {<<DefaultMethod, c>> : c \in MethodValues}
TrainSizes == {0, TrainExamples}
DevSizes == {DevExamples \div 5, DevExamples}

(* --------------------------- pure helpers ------------------------------ *)
\* Python list indexing: valid for -len <= k <= len-1
PyIndexOK(lst, k) == (k >= 0 - Len(lst)) /\ (k <= Len(lst) - 1)

\* Python floor division of non-negative integers
FloorDiv(a, c) == a \div c

\* len(loader): number of batches of a loader over n examples
NumBatches(n, bs) == (n + bs - 1) \div bs

\* first and last example (1-based) of the j-th batch, j = 1..NumBatches
BatchLo(j, bs) == (j - 1) * bs + 1

BatchHi(j, n, bs) == IF j * bs <= n THEN j * bs ELSE n

RECURSIVE SeqMax(_)
SeqMax(s) == IF Len(s) = 1 THEN s[1]
             ELSE LET m == SeqMax(Tail(s)) IN IF s[1] >= m THEN s[1] ELSE m

\* dropout is active in training mode only
Noise(m, r) == IF m = "train" THEN r ELSE 0

\* argmax class id of example x under parameters p
PredId(m, p, r, x) == (p + x + Noise(m, r)) % NumLabels

\* mean cross-entropy of the batch whose first example is lo
BatchLoss(m, p, r, lo) == 1 + ((p + lo + Noise(m, r)) % 3)

id2label(k) == LabelNames[k + 1]

CkptName(e) == "ckpt_epoch_" \o ToString(e) \o ".pt"

BestName == "best_model.pt"

\* value of the loop variable i at line 177: the inner loop of lines
\* 152-154 rebinds i, leaving it at len(batch) - 1
ShadowedIndex(b) == BatchLen - 1

\* a loss total divided by the example count and multiplied by batch size,
\* kept as an exact fraction
Normalise(total, n, bs) == [num |-> total.num * bs, den |-> total.den * n]

Zero == [num |-> 0, den |-> 1]

AddLoss(total, l) == [num |-> total.num + l * total.den, den |-> total.den]

(* ------------------------------ state ---------------------------------- *)
VARIABLES
  batch_size, num_epoch, save_epoch, input_method, output_method,  \* args
  n_train, n_dev,                  \* len(train_loader.dataset), len(dev_loader.dataset)
  pc, error,                       \* position in train(), raised exception
  model_built,                     \* BertClassifier.from_pretrained has run
  scheduler,                       \* TRUE iff get_scheduler returned an object
  mode,                            \* "train" / "eval" flag of the model
  rng,                             \* random draws consumed so far
  opt_steps, sched_steps,          \* optimizer.step() / scheduler.step() calls
  grad_count,                      \* backward passes accumulated since zero_grad
  global_step, epoch, b, d, i,     \* counters and loop variables
  train_loss, dev_loss, predictions, dev_f1,
  files,                           \* .pt files of model_save_dir: name -> content
  list_train_loss, list_dev_loss, list_dev_f1,
  log_rows,                        \* rows of the log file after its header
  plot,                            \* data of the last saved figure
  trace,                           \* history: <<epoch, phase>> in execution order
  saved,                           \* history: content written by torch.save per epoch
  evals,                           \* history: what each EVAL pass produced
  epoch_opt_start                  \* history: opt_steps when the epoch began

config == <<batch_size, num_epoch, save_epoch, input_method, output_method,
            n_train, n_dev>>

vars == <<batch_size, num_epoch, save_epoch, input_method, output_method,
          n_train, n_dev, pc, error, model_built, scheduler, mode, rng,
          opt_steps, sched_steps, grad_count, global_step, epoch, b, d, i,
          train_loss, dev_loss, predictions, dev_f1, files,
          list_train_loss, list_dev_loss, list_dev_f1, log_rows, plot,
          trace, saved, evals, epoch_opt_start>>

grad_acc_steps == FloorDiv(TargetBatch, batch_size)

\* variant: the budget of the commented-out line 129
train_steps_old == FloorDiv(NumBatches(n_train, batch_size), batch_size) * num_epoch

train_steps == NumBatches(n_train, batch_size) * num_epoch

Init ==
  /\ batch_size \in BatchSizes
  /\ num_epoch \in 0..MaxEpoch
  /\ save_epoch \in 0..MaxSaveEpoch
  /\ \E mp \in MethodPairs : input_method = mp[1] /\ output_method = mp[2]
  /\ n_train \in TrainSizes
  /\ n_dev \in DevSizes
  /\ pc = "start"
  /\ error = "none"
  /\ model_built = FALSE
  /\ scheduler = FALSE
  /\ mode = "train"
  /\ rng = 0
  /\ opt_steps = 0
  /\ sched_steps = 0
  /\ grad_count = 0
  /\ global_step = 0
  /\ epoch = 0
  /\ b = 0
  /\ d = 0
  /\ i = 0
  /\ train_loss = Zero
  /\ dev_loss = Zero
  /\ predictions = <<>>
  /\ dev_f1 = 0
  /\ files = [n \in {} |-> 0]
  /\ list_train_loss = <<>>
  /\ list_dev_loss = <<>>
  /\ list_dev_f1 = <<>>
  /\ log_rows = <<>>
  /\ plot = <<>>
  /\ trace = <<>>
  /\ saved = <<>>
  /\ evals = <<>>
  /\ epoch_opt_start = 0

\* an exception propagates out of train(): nothing else changes
Raise(e) == pc' = "aborted" /\ error' = e

optv == <<opt_steps, sched_steps, grad_count>>

histv == <<list_train_loss, list_dev_loss, list_dev_f1>>

evalv == <<dev_loss, predictions, dev_f1, d>>

\* file-system effects on the model directory
WriteFile(fs, name, content) ==
  [n \in (DOMAIN fs) \cup {name} |-> IF n = name THEN content ELSE fs[n]]

RemoveFile(fs, name) == [n \in (DOMAIN fs) \ {name} |-> fs[n]]

\* the object torch.save serialises: the model as it is after this epoch
Snapshot == [epoch |-> epoch, params |-> opt_steps]

(* ------------------------------ start-up ------------------------------- *)
\* lines 58-63: the two name lookups by list index
ValidateMethods ==
  /\ pc = "start"
  /\ IF PyIndexOK(input_method_name, input_method)
        /\ PyIndexOK(output_method_name, output_method)
     THEN pc' = "build" /\ error' = error
     ELSE Raise("IndexError")
  /\ UNCHANGED <<config, model_built, scheduler, mode, rng, optv, global_step,
                 epoch, b, i, train_loss, evalv, files, histv, log_rows, plot,
                 trace, saved, evals, epoch_opt_start>>

\* lines 84-93: the model is constructed, then told the two methods; what
\* set_tokenizer does with a selector outside 1..3 is not fixed by train()
BuildModel ==
  /\ pc = "build"
  /\ model_built' = TRUE
  /\ \/ pc' = "setup" /\ error' = error
     \/ /\ ~(input_method \in 1..3 /\ output_method \in 1..3)
        /\ Raise("ValueError")
  /\ UNCHANGED <<config, scheduler, mode, rng, optv, global_step,
                 epoch, b, i, train_loss, evalv, files, histv, log_rows, plot,
                 trace, saved, evals, epoch_opt_start>>

\* lines 94-142: loaders, model directory, logger header, optimizer,
\* scheduler (possibly None), counters and empty histories
Setup ==
  /\ pc = "setup"
  /\ scheduler' \in BOOLEAN
  /\ global_step' = 0
  /\ list_train_loss' = <<>>
  /\ list_dev_loss' = <<>>
  /\ list_dev_f1' = <<>>
  /\ log_rows' = <<>>
  /\ pc' = "epoch_head"
  /\ UNCHANGED <<config, error, model_built, mode, rng, optv,
                 epoch, b, i, train_loss, evalv, files, plot,
                 trace, saved, evals, epoch_opt_start>>

(* ----------------------------- epoch loop ------------------------------ *)
\* variant: the step counter is initialised inside the epoch loop
EpochHead_resets ==
  /\ pc = "epoch_head"
  /\ IF epoch < num_epoch
     THEN /\ epoch' = epoch + 1
          /\ train_loss' = Zero
          /\ mode' = "train"
          /\ b' = 0
          /\ pc' = "train"
          /\ trace' = Append(trace, <<epoch + 1, "train">>)
          /\ epoch_opt_start' = opt_steps
          /\ global_step' = 0
     ELSE /\ pc' = "end"
          /\ UNCHANGED <<epoch, train_loss, mode, b, trace, epoch_opt_start,
                         global_step>>
  /\ UNCHANGED <<config, error, model_built, scheduler, rng, optv,
                 i, evalv, files, histv, log_rows, plot, saved, evals>>

\* variant: optimizer.zero_grad() is called at the start of every epoch
EpochHead_zero_grad ==
  /\ pc = "epoch_head"
  /\ IF epoch < num_epoch
     THEN /\ epoch' = epoch + 1
          /\ train_loss' = Zero
          /\ mode' = "train"
          /\ b' = 0
          /\ pc' = "train"
          /\ trace' = Append(trace, <<epoch + 1, "train">>)
          /\ epoch_opt_start' = opt_steps
          /\ grad_count' = 0
     ELSE /\ pc' = "end"
          /\ UNCHANGED <<epoch, train_loss, mode, b, trace, epoch_opt_start,
                         grad_count>>
  /\ UNCHANGED <<config, error, model_built, scheduler, rng, opt_steps,
                 sched_steps, global_step, i, evalv, files, histv, log_rows,
                 plot, saved, evals>>

\* lines 145-147: next value of the range, or loop exit
EpochHead ==
  /\ pc = "epoch_head"
  /\ IF epoch < num_epoch
     THEN /\ epoch' = epoch + 1
          /\ train_loss' = Zero
          /\ mode' = "train"
          /\ b' = 0
          /\ pc' = "train"
          /\ trace' = Append(trace, <<epoch + 1, "train">>)
          /\ epoch_opt_start' = opt_steps
     ELSE /\ pc' = "end"
          /\ UNCHANGED <<epoch, train_loss, mode, b, trace, epoch_opt_start>>
  /\ UNCHANGED <<config, error, model_built, scheduler, rng, optv, global_step,
                 i, evalv, files, histv, log_rows, plot, saved, evals>>

\* variant: scheduler.step() is left out
SchedulerStep_never(s, present) == s

\* lines 179-180: the scheduler steps with the optimizer unless it is None
SchedulerStep(s, present) == IF present THEN s + 1 ELSE s

\* lines 148-184: one training batch
TrainBatch ==
  /\ pc = "train"
  /\ b < NumBatches(n_train, batch_size)
  /\ i' = ShadowedIndex(b)
  /\ rng' = IF mode = "train" THEN rng + 1 ELSE rng
  /\ LET loss == BatchLoss(mode, opt_steps, rng, BatchLo(b + 1, batch_size))
     IN IF grad_acc_steps = 0
        THEN \* line 177 divides by zero after loss.backward()
             /\ grad_count' = grad_count + 1
             /\ Raise("ZeroDivisionError")
             /\ UNCHANGED <<opt_steps, sched_steps, train_loss, global_step, b>>
        ELSE /\ IF (i' + 1) % grad_acc_steps = 0
                THEN /\ opt_steps' = opt_steps + 1
                     /\ sched_steps' = SchedulerStep(sched_steps, scheduler)
                     /\ grad_count' = 0
                ELSE /\ grad_count' = grad_count + 1
                     /\ UNCHANGED <<opt_steps, sched_steps>>
             /\ train_loss' = AddLoss(train_loss, loss)
             /\ global_step' = global_step + 1
             /\ b' = b + 1
             /\ UNCHANGED <<pc, error>>
  /\ UNCHANGED <<config, model_built, scheduler, mode, epoch, evalv, files,
                 histv, log_rows, plot, trace, saved, evals, epoch_opt_start>>

\* variant: model.eval() is not called, the model stays in training mode
EvalStart_noeval ==
  /\ pc = "train"
  /\ b = NumBatches(n_train, batch_size)
  /\ predictions' = <<>>
  /\ dev_loss' = Zero
  /\ d' = 0
  /\ pc' = "eval"
  /\ trace' = Append(trace, <<epoch, "eval">>)
  /\ UNCHANGED <<config, error, model_built, scheduler, mode, rng, optv,
                 global_step, epoch, b, i, train_loss, dev_f1, files, histv,
                 log_rows, plot, saved, evals, epoch_opt_start>>

\* lines 188-192: the training loader is exhausted; the EVAL pass begins
EvalStart ==
  /\ pc = "train"
  /\ b = NumBatches(n_train, batch_size)
  /\ predictions' = <<>>
  /\ dev_loss' = Zero
  /\ mode' = "eval"
  /\ d' = 0
  /\ pc' = "eval"
  /\ trace' = Append(trace, <<epoch, "eval">>)
  /\ UNCHANGED <<config, error, model_built, scheduler, rng, optv, global_step,
                 epoch, b, i, train_loss, dev_f1, files, histv, log_rows, plot,
                 saved, evals, epoch_opt_start>>

\* variant: dev batches are counted in global_step as well
EvalBatch_counts ==
  /\ pc = "eval"
  /\ d < NumBatches(n_dev, batch_size)
  /\ i' = ShadowedIndex(d)
  /\ rng' = IF mode = "train" THEN rng + 1 ELSE rng
  /\ LET lo == BatchLo(d + 1, batch_size)
         hi == BatchHi(d + 1, n_dev, batch_size)
         preds == [k \in 1..(hi - lo + 1) |->
                     PredId(mode, opt_steps, rng, lo + k - 1)]
     IN /\ predictions' = predictions \o preds
        /\ dev_loss' = AddLoss(dev_loss, BatchLoss(mode, opt_steps, rng, lo))
  /\ d' = d + 1
  /\ global_step' = global_step + 1
  /\ UNCHANGED <<config, pc, error, model_built, scheduler, mode, optv,
                 epoch, b, train_loss, dev_f1, files, histv,
                 log_rows, plot, trace, saved, evals, epoch_opt_start>>

\* variant: the batch's predictions replace the list instead of extending it
EvalBatch_overwrite ==
  /\ pc = "eval"
  /\ d < NumBatches(n_dev, batch_size)
  /\ i' = ShadowedIndex(d)
  /\ rng' = IF mode = "train" THEN rng + 1 ELSE rng
  /\ LET lo == BatchLo(d + 1, batch_size)
         hi == BatchHi(d + 1, n_dev, batch_size)
         preds == [k \in 1..(hi - lo + 1) |->
                     PredId(mode, opt_steps, rng, lo + k - 1)]
     IN /\ predictions' = preds
        /\ dev_loss' = AddLoss(dev_loss, BatchLoss(mode, opt_steps, rng, lo))
  /\ d' = d + 1
  /\ UNCHANGED <<config, pc, error, model_built, scheduler, mode, optv,
                 global_step, epoch, b, train_loss, dev_f1, files, histv,
                 log_rows, plot, trace, saved, evals, epoch_opt_start>>

\* lines 193-214: one dev batch under torch.no_grad()
EvalBatch ==
  /\ pc = "eval"
  /\ d < NumBatches(n_dev, batch_size)
  /\ i' = ShadowedIndex(d)
  /\ rng' = IF mode = "train" THEN rng + 1 ELSE rng
  /\ LET lo == BatchLo(d + 1, batch_size)
         hi == BatchHi(d + 1, n_dev, batch_size)
         preds == [k \in 1..(hi - lo + 1) |->
                     PredId(mode, opt_steps, rng, lo + k - 1)]
     IN /\ predictions' = predictions \o preds
        /\ dev_loss' = AddLoss(dev_loss, BatchLoss(mode, opt_steps, rng, lo))
  /\ d' = d + 1
  /\ UNCHANGED <<config, pc, error, model_built, scheduler, mode, optv,
                 global_step, epoch, b, train_loss, dev_f1, files, histv,
                 log_rows, plot, trace, saved, evals, epoch_opt_start>>

\* lines 215-229: label lookup, scoring by the dataset, loss normalisation,
\* console and log-file line
EvalFinish ==
  /\ pc = "eval"
  /\ d = NumBatches(n_dev, batch_size)
  /\ predictions' = [k \in 1..Len(predictions) |-> id2label(predictions[k])]
  /\ \E f \in 0..MaxF1 :
       /\ dev_f1' = f
       /\ IF n_train = 0
          THEN \* line 223: integer 0 divided by len(dataset) = 0
               /\ evals' = Append(evals, [params |-> opt_steps,
                                          predictions |-> predictions',
                                          dev_loss |-> dev_loss])
               /\ Raise("ZeroDivisionError")
               /\ UNCHANGED <<train_loss, dev_loss, log_rows, trace>>
          ELSE /\ train_loss' = Normalise(train_loss, n_train, batch_size)
               /\ dev_loss' = Normalise(dev_loss, n_dev, batch_size)
               /\ evals' = Append(evals, [params |-> opt_steps,
                                          predictions |-> predictions',
                                          dev_loss |-> dev_loss'])
               /\ log_rows' = Append(log_rows,
                                     [epoch |-> epoch, train_loss |-> train_loss',
                                      dev_loss |-> dev_loss', dev_f1 |-> f])
               /\ trace' = Append(trace, <<epoch, "log">>)
               /\ pc' = "save"
               /\ error' = error
  /\ UNCHANGED <<config, model_built, scheduler, mode, rng, optv, global_step,
                 epoch, b, d, i, files, histv, plot, saved, epoch_opt_start>>

(* ---------------------------- checkpoints ------------------------------ *)
trainv == <<mode, rng, optv, global_step, epoch, b, i, train_loss, evalv>>

\* lines 232-233: torch.save(model, model_file); an I/O failure propagates
SaveCkpt ==
  /\ pc = "save"
  /\ \/ /\ files' = WriteFile(files, CkptName(epoch), Snapshot)
        /\ saved' = Append(saved, Snapshot)
        /\ trace' = Append(trace, <<epoch, "save">>)
        /\ pc' = "compare"
        /\ error' = error
     \/ /\ Raise("SaveError")
        /\ UNCHANGED <<files, saved, trace>>
  /\ UNCHANGED <<config, model_built, scheduler, trainv, histv, log_rows,
                 plot, evals, epoch_opt_start>>

\* variant: a tie with the recorded maximum also counts as a new best
IsNewBest_ge(f, history) == Len(history) = 0 \/ f >= SeqMax(history)

\* line 234: first epoch, or strictly better than every recorded dev F1
IsNewBest(f, history) == Len(history) = 0 \/ f > SeqMax(history)

\* variant: a failed copy is caught and the epoch carries on
Compare_swallow ==
  /\ pc = "compare"
  /\ IF IsNewBest(dev_f1, list_dev_f1)
     THEN \/ /\ files' = WriteFile(files, BestName, files[CkptName(epoch)])
             /\ trace' = Append(trace, <<epoch, "compare">>)
             /\ pc' = "prune"
             /\ error' = error
          \/ /\ error' = "CopyError"
             /\ trace' = Append(trace, <<epoch, "compare">>)
             /\ pc' = "prune"
             /\ UNCHANGED files
     ELSE /\ trace' = Append(trace, <<epoch, "compare">>)
          /\ pc' = "prune"
          /\ UNCHANGED <<files, error>>
  /\ UNCHANGED <<config, model_built, scheduler, trainv, histv, log_rows,
                 plot, saved, evals, epoch_opt_start>>

\* lines 234-236: copy the fresh checkpoint to the best-model path
Compare ==
  /\ pc = "compare"
  /\ IF IsNewBest(dev_f1, list_dev_f1)
     THEN \/ /\ files' = WriteFile(files, BestName, files[CkptName(epoch)])
             /\ trace' = Append(trace, <<epoch, "compare">>)
             /\ pc' = "prune"
             /\ error' = error
          \/ /\ Raise("CopyError")
             /\ UNCHANGED <<files, trace>>
     ELSE /\ trace' = Append(trace, <<epoch, "compare">>)
          /\ pc' = "prune"
          /\ UNCHANGED <<files, error>>
  /\ UNCHANGED <<config, model_built, scheduler, trainv, histv, log_rows,
                 plot, saved, evals, epoch_opt_start>>

\* variant: the retention test is inverted
MustPrune_inverted(e, k) == e % k = 0

\* line 237: the checkpoint of this epoch is not retained
MustPrune(e, k) == e % k # 0

\* variant: the prune removes the best-model file
PruneTarget_best(e) == BestName

\* line 238: the file os.remove is given
PruneTarget(e) == CkptName(e)

\* lines 237-238
Prune ==
  /\ pc = "prune"
  /\ IF save_epoch = 0
     THEN /\ Raise("ZeroDivisionError")
          /\ UNCHANGED <<files, trace>>
     ELSE /\ files' = IF MustPrune(epoch, save_epoch)
                      THEN RemoveFile(files, PruneTarget(epoch))
                      ELSE files
          /\ trace' = Append(trace, <<epoch, "prune">>)
          /\ pc' = "append"
          /\ error' = error
  /\ UNCHANGED <<config, model_built, scheduler, trainv, histv, log_rows,
                 plot, saved, evals, epoch_opt_start>>

\* variant: each list is rebound to the latest value instead of appended to
AppendHistory_replace ==
  /\ pc = "append"
  /\ list_train_loss' = <<train_loss>>
  /\ list_dev_loss' = <<dev_loss>>
  /\ list_dev_f1' = <<dev_f1>>
  /\ trace' = Append(trace, <<epoch, "append">>)
  /\ pc' = "plot"
  /\ UNCHANGED <<config, error, model_built, scheduler, trainv, files,
                 log_rows, plot, saved, evals, epoch_opt_start>>

\* variant: the loop continues without redrawing the figure
AppendHistory_noplot ==
  /\ pc = "append"
  /\ list_train_loss' = Append(list_train_loss, train_loss)
  /\ list_dev_loss' = Append(list_dev_loss, dev_loss)
  /\ list_dev_f1' = Append(list_dev_f1, dev_f1)
  /\ trace' = Append(trace, <<epoch, "append">>)
  /\ pc' = "epoch_head"
  /\ UNCHANGED <<config, error, model_built, scheduler, trainv, files,
                 log_rows, plot, saved, evals, epoch_opt_start>>

\* lines 243-245
AppendHistory ==
  /\ pc = "append"
  /\ list_train_loss' = Append(list_train_loss, train_loss)
  /\ list_dev_loss' = Append(list_dev_loss, dev_loss)
  /\ list_dev_f1' = Append(list_dev_f1, dev_f1)
  /\ trace' = Append(trace, <<epoch, "append">>)
  /\ pc' = "plot"
  /\ UNCHANGED <<config, error, model_built, scheduler, trainv, files,
                 log_rows, plot, saved, evals, epoch_opt_start>>

\* line 246: the figure is redrawn from the three full lists
plot_and_save ==
  /\ pc = "plot"
  /\ plot' = <<list_train_loss, list_dev_loss, list_dev_f1>>
  /\ trace' = Append(trace, <<epoch, "plot">>)
  /\ pc' = "epoch_head"
  /\ UNCHANGED <<config, error, model_built, scheduler, trainv, files, histv,
                 log_rows, saved, evals, epoch_opt_start>>

\* line 248: the final report formats the loop variable epoch, which is
\* unbound when the loop body never ran
TrainingEnded ==
  /\ pc = "end"
  /\ IF epoch = 0
     THEN Raise("UnboundLocalError")
     ELSE pc' = "done" /\ error' = error
  /\ UNCHANGED <<config, model_built, scheduler, trainv, files, histv,
                 log_rows, plot, trace, saved, evals, epoch_opt_start>>

Next ==
  \/ ValidateMethods
  \/ BuildModel
  \/ Setup
  \/ EpochHead
  \/ TrainBatch
  \/ EvalStart
  \/ EvalBatch
  \/ EvalFinish
  \/ SaveCkpt
  \/ Compare
  \/ Prune
  \/ AppendHistory
  \/ plot_and_save
  \/ TrainingEnded

Spec == Init /\ [][Next]_vars

TypeOK ==
  /\ pc \in {"start", "build", "setup", "epoch_head", "train", "eval", "save",
             "compare", "prune", "append", "plot", "end", "done", "aborted"}
  /\ epoch \in 0..num_epoch
  /\ b \in 0..NumBatches(n_train, batch_size)
  /\ d \in 0..NumBatches(n_dev, batch_size)

(* ======================= properties of the run ========================= *)
TrainBatches == NumBatches(n_train, batch_size)

DevBatches == NumBatches(n_dev, batch_size)

\* a configuration train() can run to the end: declared method selectors,
\* non-zero accumulation factor and retention cadence, non-empty training set
ValidConfig ==
  /\ input_method \in 1..3
  /\ output_method \in 1..3
  /\ grad_acc_steps >= 1
  /\ save_epoch >= 1
  /\ n_train > 0

\* C1: for A >= 1 the optimizer steps applied during one TRAIN pass number
\* floor(B / A), B being the number of training batches
C1_StepsPerEpoch ==
  (pc = "train" /\ b = TrainBatches /\ ValidConfig)
    => opt_steps - epoch_opt_start = FloorDiv(TrainBatches, grad_acc_steps)

\* index of the earliest maximum of a non-empty sequence
FirstArgMax(s) ==
  CHOOSE k \in 1..Len(s) :
    /\ s[k] = SeqMax(s)
    /\ \A j \in 1..(k - 1) : s[j] < s[k]

\* dev F1 values the COMPARE step has acted on so far
SeenF1 == IF pc \in {"prune", "append"} THEN Append(list_dev_f1, dev_f1)
          ELSE list_dev_f1

\* C2: once COMPARE has run, best_model.pt is the checkpoint saved in the
\* earliest epoch whose dev F1 is the maximum so far (a tie never replaces it)
C2_BestIsEarliestMax ==
  (pc # "aborted" /\ Len(SeenF1) >= 1)
    => /\ BestName \in DOMAIN files
       /\ files[BestName] = saved[FirstArgMax(SeenF1)]
       /\ files[BestName].epoch = FirstArgMax(SeenF1)

C2_Witness ==
  /\ pc = "epoch_head"
  /\ list_dev_f1 = <<0, 1, 1>>
  /\ files[BestName].epoch = 2

\* C3: between epochs and at the end of the run the per-epoch checkpoint
\* files on disk are exactly those of the epochs 1..epoch divisible by
\* save_epoch
C3_RetainedCheckpoints ==
  (pc \in {"epoch_head", "end", "done"} /\ save_epoch >= 1)
    => (DOMAIN files) \ {BestName}
         = {CkptName(e) : e \in {x \in 1..epoch : x % save_epoch = 0}}

C3_Witness ==
  /\ pc = "done"
  /\ num_epoch = 3
  /\ save_epoch = 2
  /\ DOMAIN files = {BestName, CkptName(2)}

\* best_model.pt is due: COMPARE of some epoch has completed
BestDue == Len(list_dev_f1) >= 1 \/ pc \in {"prune", "append", "plot"}

\* C4: from the COMPARE of epoch 1 on best_model.pt exists, and the prune
\* step neither deletes it nor changes its content
C4_PruneKeepsBest ==
  /\ [](BestDue => BestName \in DOMAIN files)
  /\ [][pc = "prune" => (pc' = "aborted" \/
                          (/\ BestName \in DOMAIN files'
                           /\ files'[BestName] = files[BestName]))]_vars

C4_Witness ==
  /\ pc = "done"
  /\ num_epoch = 2
  /\ save_epoch = 2
  /\ list_dev_f1 = <<1, 0>>
  /\ DOMAIN files = {BestName, CkptName(2)}
  /\ files[BestName].epoch = 1

\* C5: every EVAL pass hands the evaluator one prediction per dev example,
\* in dataset order, and nothing from earlier passes
C5_OnePredictionPerExample ==
  \A k \in DOMAIN evals :
    /\ Len(evals[k].predictions) = n_dev
    /\ \A x \in 1..n_dev :
         evals[k].predictions[x] = id2label(PredId("eval", evals[k].params, 0, x))

C5_Witness ==
  /\ Len(evals) >= 2
  /\ n_dev = DevExamples
  /\ batch_size = 12
  /\ evals[1].params # evals[2].params

\* C6: two EVAL passes over the same parameters give the same predictions
\* and the same dev loss
C6_EvalDeterministic ==
  \A k1, k2 \in DOMAIN evals :
    evals[k1].params = evals[k2].params
      => /\ evals[k1].predictions = evals[k2].predictions
         /\ evals[k1].dev_loss = evals[k2].dev_loss

C6_Witness ==
  /\ Len(evals) >= 2
  /\ evals[1].params = evals[2].params
  /\ n_dev = DevExamples

ClaimedOrder == <<"train", "eval", "save", "compare", "prune", "append", "log", "plot">>

CodeOrder == <<"train", "eval", "log", "save", "compare", "prune", "append", "plot">>

FollowsOrder(order) ==
  \A k \in DOMAIN trace :
    trace[k] = <<((k - 1) \div Len(order)) + 1, order[((k - 1) % Len(order)) + 1]>>

\* C7 as stated: per epoch TRAIN, EVAL, save, compare, prune, history
\* append, log line, plot, and epochs never overlap
C7_ClaimedOrder == FollowsOrder(ClaimedOrder)

\* C7 amended: per epoch TRAIN, EVAL, log line, save, compare, prune,
\* history append, plot, and epochs never overlap
C7_CodeOrder == FollowsOrder(CodeOrder)

C7_Witness == pc = "done" /\ epoch = 2 /\ Len(trace) = 16

CollaboratorErrors == {"SaveError", "CopyError", "ValueError"}

\* C8: for every num_epoch >= 0, unless a collaborator fails, train() runs
\* num_epoch epochs and reaches the final report without an error
C8_RunsAllEpochs ==
  /\ (pc = "aborted" /\ ValidConfig) => error \in CollaboratorErrors
  /\ pc = "done" => (epoch = num_epoch /\ Len(evals) = num_epoch)

\* C9: the model is never built with a method selector outside {1, 2, 3}
C9_MethodsRejected ==
  model_built => (input_method \in 1..3 /\ output_method \in 1..3)

PersistErrors == {"SaveError", "CopyError"}

\* C10: a failed checkpoint write or best-model copy aborts the run at once
\* and nothing is executed afterwards
C10_PersistFailureAborts ==
  /\ [](error \in PersistErrors => pc = "aborted")
  /\ [][error \notin PersistErrors]_vars

C10_Witness ==
  /\ pc = "aborted"
  /\ error \in PersistErrors
  /\ epoch = 2
  /\ Len(list_dev_f1) = 1

\* C11: within a TRAIN pass an optimizer step follows the batch with index j
\* exactly when (j + 1) mod A = 0, so after b batches floor(b / A) steps
\* have been applied
C11_StepOnMultiple ==
  (pc = "train" /\ ValidConfig)
    => opt_steps - epoch_opt_start = FloorDiv(b, grad_acc_steps)

\* ceiling of a / c for positive c
CeilDiv(a, c) == (a + c - 1) \div c

\* C12: the accumulation factor computed at start-up is ceil(64 / batch_size)
\* and is at least 1
C12_CeilFactor ==
  pc = "train"
    => /\ grad_acc_steps = CeilDiv(TargetBatch, batch_size)
       /\ grad_acc_steps >= 1

\* C13: each optimizer step comes with one scheduler step (none when the
\* scheduler is absent) and a clearing of the gradients in the same batch
\* iteration, so at every batch boundary the scheduler has stepped as often
\* as the optimizer
C13_SchedulerFollowsOptimizer ==
  /\ [](sched_steps = IF scheduler THEN opt_steps ELSE 0)
  /\ [][opt_steps' # opt_steps
          => /\ opt_steps' = opt_steps + 1
             /\ sched_steps' = IF scheduler THEN sched_steps + 1 ELSE sched_steps
             /\ grad_count' = 0
             /\ b' = b + 1]_vars

C13_Witness ==
  /\ scheduler
  /\ pc = "train"
  /\ epoch = 2
  /\ opt_steps = TrainBatches + 1
  /\ sched_steps = opt_steps
  /\ grad_count = 0

\* C14: optimizer and scheduler step counts (hence the parameters), the
\* accumulated gradients and global_step change only in a batch iteration
\* of the TRAIN pass, never in the EVAL pass or any other step
C14_OnlyTrainMutates ==
  [][(opt_steps' # opt_steps \/ sched_steps' # sched_steps
        \/ grad_count' # grad_count \/ global_step' # global_step)
       => (pc = "train" /\ b < TrainBatches)]_vars

C14_Witness ==
  /\ pc = "eval"
  /\ epoch = 2
  /\ d = DevBatches
  /\ d >= 2
  /\ opt_steps > 0
  /\ global_step = 2 * TrainBatches

\* C15: global_step counts the training batches processed so far: it is
\* e * B after e completed epochs and never exceeds train_steps
C15_GlobalStepCountsBatches ==
  /\ global_step = IF epoch = 0 THEN 0 ELSE (epoch - 1) * TrainBatches + b
  /\ global_step <= train_steps
  /\ pc \in {"epoch_head", "end", "done"} => global_step = epoch * TrainBatches

C15_Witness ==
  /\ pc = "done"
  /\ epoch = 3
  /\ grad_acc_steps = 2
  /\ TrainBatches >= 2
  /\ global_step = 3 * TrainBatches
  /\ opt_steps = 0

IsPrefix(s, t) == Len(s) <= Len(t) /\ \A j \in 1..Len(s) : s[j] = t[j]

\* C16: after e completed epochs every history list and the log file hold
\* e entries, entry j being epoch j's value, and recorded entries are never
\* changed or removed
C16_OneRecordPerEpoch ==
  /\ [](pc \in {"epoch_head", "end", "done"}
          => /\ Len(list_train_loss) = epoch
             /\ Len(list_dev_loss) = epoch
             /\ Len(list_dev_f1) = epoch
             /\ Len(log_rows) = epoch
             /\ \A j \in 1..epoch :
                  /\ log_rows[j].epoch = j
                  /\ list_train_loss[j] = log_rows[j].train_loss
                  /\ list_dev_loss[j] = evals[j].dev_loss
                  /\ list_dev_f1[j] = log_rows[j].dev_f1)
  /\ [][/\ IsPrefix(list_train_loss, list_train_loss')
        /\ IsPrefix(list_dev_loss, list_dev_loss')
        /\ IsPrefix(list_dev_f1, list_dev_f1')
        /\ IsPrefix(log_rows, log_rows')]_vars

C16_Witness ==
  /\ pc = "done"
  /\ epoch = 3
  /\ list_dev_f1 = <<1, 0, 1>>
  /\ Len(log_rows) = 3

\* C17: accumulated gradients are cleared only together with an optimizer
\* step; the end of the TRAIN pass, the EVAL pass and the next epoch's start
\* leave them in place, so what is unflushed carries over into the next epoch
C17_GradsClearedOnlyOnStep ==
  /\ []((opt_steps = 0 /\ pc # "aborted") => grad_count = global_step)
  /\ [][grad_count' # grad_count
          => /\ pc = "train" /\ b < TrainBatches
             /\ \/ grad_count' = grad_count + 1
                \/ grad_count' = 0 /\ opt_steps' = opt_steps + 1]_vars

C17_Witness ==
  /\ pc = "train"
  /\ epoch = 2
  /\ b = 1
  /\ TrainBatches >= 2
  /\ grad_count = TrainBatches + 1

\* C18: the scheduler never steps more often than the budget it was
\* created with, train_steps = len(train_loader) * num_epoch
C18_SchedulerWithinBudget == sched_steps <= train_steps

C18_Witness ==
  /\ pc = "done"
  /\ scheduler
  /\ train_steps >= 4
  /\ sched_steps = train_steps

====
